---- MODULE Spec2Model ----
(***************************************************************************)
(* Model of transcript.py: one interactive run of main(), which parses a   *)
(* YouTube URL, looks up the title and the transcript, formats the         *)
(* transcript, saves it, asks Gemini for a cleaned version and saves that. *)
(*                                                                         *)
(* Python strings are sequences of one-character strings.  A Python value  *)
(* that may be None is a record [some, val]; None is [some |-> FALSE].     *)
(* A caption start offset (a float) is held as a whole number of tenths    *)
(* of a second, so 65.9 is 659.                                            *)
(***************************************************************************)
EXTENDS Integers, Sequences, FiniteSets, TLC

VARIABLES pc, url, video_id, video_title, transcript, raw_transcript_lines,
          raw_transcript_text, cleaned_transcript, raw_result, cleaned_result,
          dirExists, dirCreated, files, effects, exit_status

vars == <<pc, url, video_id, video_title, transcript, raw_transcript_lines,
          raw_transcript_text, cleaned_transcript, raw_result, cleaned_result,
          dirExists, dirCreated, files, effects, exit_status>>

(***************************************************************************)
(* Bounds of the model.                                                    *)
(***************************************************************************)
MaxPrefixParts == 3
MaxDays == 2
MaxEntries == 2
LongTitleLen == 250

(***************************************************************************)
(* Python values.                                                          *)
(***************************************************************************)
None == [some |-> FALSE, val |-> <<>>]

Some(v) == [some |-> TRUE, val |-> v]

\* Python truthiness of an optional string or list: None and empty are false.
Truthy(o) == o.some /\ o.val # <<>>

\* a or b, for an optional string a and a string b.
OrElse(o, d) == IF Truthy(o) THEN o.val ELSE d

RECURSIVE Concat(_)
Concat(ss) == IF ss = <<>> THEN <<>> ELSE Head(ss) \o Concat(Tail(ss))

RECURSIVE Repeat(_, _)
Repeat(c, n) == IF n = 0 THEN <<>> ELSE <<c>> \o Repeat(c, n - 1)

(***************************************************************************)
(* extract_video_id                                                        *)
(***************************************************************************)
IdLen == 11

IdChars ==
    {"0", "1", "2", "3", "4", "5", "6", "7", "8", "9", "A", "B", "C", "D",
     "E", "F", "G", "H", "I", "J", "K", "L", "M", "N", "O", "P", "Q", "R",
     "S", "T", "U", "V", "W", "X", "Y", "Z", "a", "b", "c", "d", "e", "f",
     "g", "h", "i", "j", "k", "l", "m", "n", "o", "p", "q", "r", "s", "t",
     "u", "v", "w", "x", "y", "z", "_", "-"}

YoutuLit == <<"y", "o", "u", "t", "u">>
BeSlashLit == <<"b", "e", "/">>

\* ([0-9A-Za-z_-]{11}) matches at position i of s.
IsIdRun(s, i) ==
    /\ i >= 1
    /\ i + IdLen - 1 <= Len(s)
    /\ \A k \in i..(i + IdLen - 1) : s[k] \in IdChars

\* Mutant: the slash alternative captures from the slash itself.
Match1AtSlashOff(s, i) ==
    IF s[i] = "v" /\ i + 1 <= Len(s) /\ s[i + 1] = "=" /\ IsIdRun(s, i + 2)
    THEN i + 2
    ELSE IF s[i] = "/" /\ IsIdRun(s, i + 1) THEN i ELSE 0

\* (?:v=|\/)([0-9A-Za-z_-]{11}).* tried at position i: the position where
\* group 1 starts, or 0 when the pattern does not match there.
Match1At(s, i) ==
    IF s[i] = "v" /\ i + 1 <= Len(s) /\ s[i + 1] = "=" /\ IsIdRun(s, i + 2)
    THEN i + 2
    ELSE IF s[i] = "/" /\ IsIdRun(s, i + 1) THEN i + 1 ELSE 0

\* youtu.be\/([0-9A-Za-z_-]{11}) tried at position i; the unescaped dot
\* matches any character but a newline.
Match2At(s, i) ==
    IF /\ i + 8 <= Len(s)
       /\ SubSeq(s, i, i + 4) = YoutuLit
       /\ s[i + 5] # "\n"
       /\ SubSeq(s, i + 6, i + 8) = BeSlashLit
       /\ IsIdRun(s, i + 9)
    THEN i + 9 ELSE 0

\* re.search: the leftmost position where the pattern matches; the result
\* is the start of group 1, or 0 for no match.
Search1(s) ==
    LET hits == {i \in 1..Len(s) : Match1At(s, i) # 0}
    IN IF hits = {} THEN 0
       ELSE Match1At(s, CHOOSE i \in hits : \A j \in hits : i <= j)

Search2(s) ==
    LET hits == {i \in 1..Len(s) : Match2At(s, i) # 0}
    IN IF hits = {} THEN 0
       ELSE Match2At(s, CHOOSE i \in hits : \A j \in hits : i <= j)

extract_video_id(s) ==
    IF Search1(s) # 0 THEN Some(SubSeq(s, Search1(s), Search1(s) + IdLen - 1))
    ELSE IF Search2(s) # 0
         THEN Some(SubSeq(s, Search2(s), Search2(s) + IdLen - 1))
         ELSE None

(***************************************************************************)
(* format_timestamp                                                        *)
(***************************************************************************)
SecondsPerDay == 86400

Digit(d) == <<"0", "1", "2", "3", "4", "5", "6", "7", "8", "9">>[d + 1]

\* "%d" of a natural number.
RECURSIVE DecStr(_)
DecStr(n) == IF n < 10 THEN <<Digit(n)>>
             ELSE DecStr(n \div 10) \o <<Digit(n % 10)>>

\* "%02d" of a natural number.
Pad2(n) == IF n < 10 THEN <<"0">> \o DecStr(n) ELSE DecStr(n)

\* int(seconds) of a non-negative float held in tenths: truncation.
IntOf(tenths) == tenths \div 10

\* str(timedelta(seconds=n)) for a natural number n: timedelta normalises
\* to days and seconds-within-the-day, and __str__ prints the day count
\* in front when it is not zero.
TimedeltaStr(n) ==
    LET days == n \div SecondsPerDay
        secs == n % SecondsPerDay
        ss   == secs % 60
        mins == secs \div 60
        mm   == mins % 60
        hh   == mins \div 60
        hms  == DecStr(hh) \o <<":">> \o Pad2(mm) \o <<":">> \o Pad2(ss)
        unit == IF days = 1 THEN <<" ", "d", "a", "y", ",", " ">>
                ELSE <<" ", "d", "a", "y", "s", ",", " ">>
    IN IF days # 0 THEN DecStr(days) \o unit \o hms ELSE hms

\* Mutant: the offset is rounded to the nearest second.
format_timestamp_rounded(tenths) == TimedeltaStr((tenths + 5) \div 10)

format_timestamp(tenths) == TimedeltaStr(IntOf(tenths))

(***************************************************************************)
(* sanitize_filename                                                       *)
(***************************************************************************)
MaxNameLen == 200

InvalidChars == {"<", ">", ":", "\"", "/", "\\", "|", "?", "*"}

Whitespace == {" ", "\t", "\n", "\r", "\f"}

RemoveInvalid(s) == SelectSeq(s, LAMBDA c : c \notin InvalidChars)

RECURSIVE LStrip(_)
LStrip(s) == IF s # <<>> /\ Head(s) \in Whitespace THEN LStrip(Tail(s)) ELSE s

RECURSIVE RStrip(_)
RStrip(s) == IF s # <<>> /\ s[Len(s)] \in Whitespace
             THEN RStrip(SubSeq(s, 1, Len(s) - 1)) ELSE s

Strip(s) == RStrip(LStrip(s))

Truncate(s, n) == IF Len(s) > n THEN SubSeq(s, 1, n) ELSE s

sanitize_filename(filename) == Truncate(Strip(RemoveInvalid(filename)), MaxNameLen)

(***************************************************************************)
(* get_video_title, get_transcript, clean_transcript_with_gemini: what     *)
(* each returns for a response of the service it calls.                    *)
(***************************************************************************)
TitleExample == <<"E", "x", "a", "m", "p", "l", "e", " ", "T", "i", "t", "l", "e">>
TitleInvalidOnly == <<"?", "?", " ", "*", "*">>
TitleMixed == <<" ", "a", "/", "b", ":", " ", "c", "?", " ">>
TitleLong == Repeat("a", LongTitleLen)

Titles == {TitleExample, TitleInvalidOnly, TitleMixed, TitleLong, <<>>}

\* Responses of requests.get: HTTP 200 with a JSON title, HTTP 200 whose
\* body has no title (json() or ['title'] raises), another status, or an
\* exception raised by the transport.
TitleResponses ==
    [kind : {"ok"}, title : Titles] \cup
    [kind : {"bad_body", "non200", "transport_error"}, title : {<<>>}]

get_video_title(resp) == IF resp.kind = "ok" THEN Some(resp.title) ELSE None

TextHello == <<"H", "e", "l", "l", "o">>
TextWorld == <<"w", "o", "r", "l", "d">>

Entries == {[start |-> 0, text |-> TextHello],
            [start |-> 610, text |-> TextWorld],
            [start |-> 659, text |-> TextHello]}

RECURSIVE SeqsUpTo(_, _)
SeqsUpTo(S, n) ==
    IF n = 0 THEN {<<>>}
    ELSE LET shorter == SeqsUpTo(S, n - 1)
         IN shorter \cup {Append(q, x) : q \in shorter, x \in S}

Transcripts == SeqsUpTo(Entries, MaxEntries)

\* Responses of YouTubeTranscriptApi.get_transcript: a list of entries
\* (possibly empty) or an exception.
TranscriptResponses ==
    [kind : {"ok"}, entries : Transcripts] \cup
    [kind : {"error"}, entries : {<<>>}]

get_transcript(resp) == IF resp.kind = "ok" THEN Some(resp.entries) ELSE None

CleanedBody == <<"[", "0", ":", "0", "0", ":", "0", "0", "]", " ", "H", "e", "l", "l", "o", " ", "w", "o", "r", "l", "d">>

\* Responses of generate_content: an exception (network, authentication,
\* quota, missing key), a response whose text is None, or a response text.
RewriteResponses ==
    [kind : {"text"}, text : {CleanedBody, <<>>}] \cup
    [kind : {"error", "no_text"}, text : {<<>>}]

clean_transcript_with_gemini(resp) ==
    IF resp.kind = "text" THEN Some(resp.text) ELSE None

(***************************************************************************)
(* Formatting (main, the loop that builds raw_transcript_lines).           *)
(***************************************************************************)
FormatLine(entry) ==
    <<"[">> \o format_timestamp(entry.start) \o <<"]", " ">> \o entry.text

FormatLines(entries) == [i \in 1..Len(entries) |-> FormatLine(entries[i])]

\* "\n".join(lines)
RECURSIVE JoinLines(_)
JoinLines(lines) ==
    IF lines = <<>> THEN <<>>
    ELSE IF Len(lines) = 1 THEN lines[1]
    ELSE lines[1] \o <<"\n">> \o JoinLines(Tail(lines))

(***************************************************************************)
(* save_raw_transcript and save_cleaned_transcript                         *)
(***************************************************************************)
TranscriptsDir == <<"t", "r", "a", "n", "s", "c", "r", "i", "p", "t", "s">>
RawSuffix == <<"_", "r", "a", "w", ".", "m", "d">>
CleanedSuffix == <<".", "m", "d">>
UnknownTitle == <<"U", "n", "k", "n", "o", "w", "n", " ", "T", "i", "t", "l", "e">>
RawHeadingTail == <<" ", "(", "R", "a", "w", " ", "T", "r", "a", "n", "s", "c", "r", "i", "p", "t", ")">>
CleanedHeadingTail == <<" ", "(", "C", "l", "e", "a", "n", "e", "d", " ", "T", "r", "a", "n", "s", "c", "r", "i", "p", "t", ")">>
Separator == <<"-", "-", "-", "\n", "\n">>

\* Mutant: the identifier is always used as the base name.
base_filename_id_only(vid, title) == vid

\* sanitize_filename(video_title) if video_title else video_id
base_filename(vid, title) ==
    IF Truthy(title) THEN sanitize_filename(title.val) ELSE vid

\* os.path.join('transcripts', name)
JoinPath(name) == TranscriptsDir \o <<"/">> \o name

RawPath(vid, title) == JoinPath(base_filename(vid, title) \o RawSuffix)

CleanedPath(vid, title) == JoinPath(base_filename(vid, title) \o CleanedSuffix)

\* Mutant: a missing title is headed "Untitled".
HeadingTitleUntitled(title) ==
    OrElse(title, <<"U", "n", "t", "i", "t", "l", "e", "d">>)

\* video_title or 'Unknown Title'
HeadingTitle(title) == OrElse(title, UnknownTitle)

RawHeading(title) == <<"#", " ">> \o HeadingTitle(title) \o RawHeadingTail

CleanedHeading(title) ==
    <<"#", " ">> \o HeadingTitle(title) \o CleanedHeadingTail

\* The lines written by the loop of save_raw_transcript, each with "\n".
RawBody(entries) ==
    Concat([i \in 1..Len(entries) |-> FormatLine(entries[i]) \o <<"\n">>])

RawContent(title, entries) ==
    RawHeading(title) \o <<"\n", "\n">> \o Separator \o RawBody(entries)

CleanedContent(title, text) ==
    CleanedHeading(title) \o <<"\n", "\n">> \o Separator \o text

\* if not os.path.exists('transcripts'): os.makedirs('transcripts')
\* makedirs is not called when the directory exists; otherwise it creates
\* the directory or raises (read-only or full file system).
MkdirOutcomes(exists) == IF exists THEN {"skipped"} ELSE {"created", "raises"}

\* open(filepath, 'w') and the writes inside the try block: all written,
\* open raises (nothing created), or a write raises after open created or
\* truncated the file.
WriteOutcomes == {"ok", "open_fail", "write_fail"}

\* The file system after the with-block on path.
WriteFile(fs, path, content, partial, outcome) ==
    LET others == {f \in fs : f.path # path}
    IN CASE outcome = "ok" ->
              others \cup {[path |-> path, content |-> content, complete |-> TRUE]}
         [] outcome = "write_fail" ->
              others \cup {[path |-> path, content |-> partial, complete |-> FALSE]}
         [] OTHER -> fs

\* return filepath after the with-block, return None from the except block.
SaveResult(path, outcome) == IF outcome = "ok" THEN Some(path) ELSE None

(***************************************************************************)
(* main                                                                    *)
(***************************************************************************)
NotAUrl == <<"n", "o", "t", " ", "a", " ", "u", "r", "l">>
UrlWatch == <<"h", "t", "t", "p", "s", ":", "/", "/", "w", "w", "w", ".", "y", "o", "u", "t", "u", "b", "e", ".", "c", "o", "m", "/", "w", "a", "t", "c", "h", "?", "v", "=", "d", "Q", "w", "4", "w", "9", "W", "g", "X", "c", "Q">>
UrlShort == <<"h", "t", "t", "p", "s", ":", "/", "/", "y", "o", "u", "t", "u", ".", "b", "e", "/", "d", "Q", "w", "4", "w", "9", "W", "g", "X", "c", "Q">>
UrlEmbedShort == <<"h", "t", "t", "p", "s", ":", "/", "/", "w", "w", "w", ".", "y", "o", "u", "t", "u", "b", "e", ".", "c", "o", "m", "/", "e", "m", "b", "e", "d", "/", "s", "h", "o", "r", "t">>

\* Lines the user may type at the prompt.
MainURLs == {NotAUrl, UrlEmbedShort, <<>>, UrlWatch, UrlShort}

\* Mutant: the title lookup runs whether or not an identifier was found.
AfterParseAlways(vid) == "title"

\* if video_id: ... else: print("Invalid YouTube URL.")
AfterParse(vid) == IF Truthy(vid) THEN "title" ELSE "done"

\* Mutant: formatting and saving run whether or not a transcript came back.
AfterTranscriptAlways(t) == "format"

\* if transcript: ... else: print("Transcript not available.")
AfterTranscript(t) == IF Truthy(t) THEN "format" ELSE "done"

\* Mutant: a failed cleaning call is tried again.
AfterCleanRetry(c) ==
    IF Truthy(c) THEN "save_cleaned"
    ELSE IF Len(effects) < 4 THEN "clean" ELSE "done"

\* if cleaned_transcript: ... else: print("Failed to clean transcript.")
AfterClean(c) == IF Truthy(c) THEN "save_cleaned" ELSE "done"

\* After the formatting loop main calls save_raw_transcript.
AfterFormat == "save_raw"

\* Mutant: the raw transcript is saved a second time.
AfterSaveRawTwice == IF Len(effects) < 3 THEN "save_raw" ELSE "clean"

\* After save_raw_transcript returns main calls clean_transcript_with_gemini.
AfterSaveRaw == "clean"

ExitOf(next) == IF next = "done" THEN "zero" ELSE "running"

Init ==
    /\ pc = "parse"
    /\ url \in MainURLs
    /\ video_id = None
    /\ video_title = None
    /\ transcript = None
    /\ raw_transcript_lines = <<>>
    /\ raw_transcript_text = <<>>
    /\ cleaned_transcript = None
    /\ raw_result = None
    /\ cleaned_result = None
    /\ dirExists \in BOOLEAN
    /\ dirCreated = FALSE
    /\ files = {}
    /\ effects = <<>>
    /\ exit_status = "running"

\* url = input(...); video_id = extract_video_id(url); if video_id:
ParseUrl ==
    /\ pc = "parse"
    /\ video_id' = extract_video_id(url)
    /\ pc' = AfterParse(video_id')
    /\ exit_status' = ExitOf(pc')
    /\ UNCHANGED <<url, video_title, transcript, raw_transcript_lines,
                   raw_transcript_text, cleaned_transcript, raw_result,
                   cleaned_result, dirExists, dirCreated, files, effects>>

\* video_title = get_video_title(video_id)
GetVideoTitle ==
    /\ pc = "title"
    /\ \E resp \in TitleResponses : video_title' = get_video_title(resp)
    /\ effects' = Append(effects, "title_lookup")
    /\ pc' = "transcript"
    /\ UNCHANGED <<url, video_id, transcript, raw_transcript_lines,
                   raw_transcript_text, cleaned_transcript, raw_result,
                   cleaned_result, dirExists, dirCreated, files, exit_status>>

\* transcript = get_transcript(video_id); if transcript:
GetTranscript ==
    /\ pc = "transcript"
    /\ \E resp \in TranscriptResponses : transcript' = get_transcript(resp)
    /\ effects' = Append(effects, "transcript_lookup")
    /\ pc' = AfterTranscript(transcript')
    /\ exit_status' = ExitOf(pc')
    /\ UNCHANGED <<url, video_id, video_title, raw_transcript_lines,
                   raw_transcript_text, cleaned_transcript, raw_result,
                   cleaned_result, dirExists, dirCreated, files>>

\* The loop over transcript and the join.
FormatTranscript ==
    /\ pc = "format"
    /\ raw_transcript_lines' = FormatLines(transcript.val)
    /\ raw_transcript_text' = JoinLines(raw_transcript_lines')
    /\ pc' = AfterFormat
    /\ UNCHANGED <<url, video_id, video_title, transcript, cleaned_transcript,
                   raw_result, cleaned_result, dirExists, dirCreated, files,
                   effects, exit_status>>

\* save_raw_transcript(video_id, video_title, transcript).  An exception of
\* os.makedirs is raised outside the try block and leaves main.
SaveRawTranscript ==
    /\ pc = "save_raw"
    /\ \E mk \in MkdirOutcomes(dirExists), w \in WriteOutcomes,
          partial \in {<<>>, RawHeading(video_title)} :
          IF mk = "raises"
          THEN /\ pc' = "done"
               /\ exit_status' = "unhandled"
               /\ UNCHANGED <<raw_result, dirExists, dirCreated, files, effects>>
          ELSE /\ dirExists' = TRUE
               /\ dirCreated' = (dirCreated \/ mk = "created")
               /\ files' = WriteFile(files, RawPath(video_id.val, video_title),
                                     RawContent(video_title, transcript.val),
                                     partial, w)
               /\ raw_result' = SaveResult(RawPath(video_id.val, video_title), w)
               /\ effects' = Append(effects, "raw_write")
               /\ pc' = AfterSaveRaw
               /\ exit_status' = ExitOf(pc')
    /\ UNCHANGED <<url, video_id, video_title, transcript, raw_transcript_lines,
                   raw_transcript_text, cleaned_transcript, cleaned_result>>

\* cleaned_transcript = clean_transcript_with_gemini(raw_transcript_text);
\* if cleaned_transcript:
CleanTranscript ==
    /\ pc = "clean"
    /\ \E resp \in RewriteResponses :
          cleaned_transcript' = clean_transcript_with_gemini(resp)
    /\ effects' = Append(effects, "rewrite_request")
    /\ pc' = AfterClean(cleaned_transcript')
    /\ exit_status' = ExitOf(pc')
    /\ UNCHANGED <<url, video_id, video_title, transcript, raw_transcript_lines,
                   raw_transcript_text, raw_result, cleaned_result, dirExists,
                   dirCreated, files>>

\* save_cleaned_transcript(video_id, video_title, cleaned_transcript)
SaveCleanedTranscript ==
    /\ pc = "save_cleaned"
    /\ \E mk \in MkdirOutcomes(dirExists), w \in WriteOutcomes,
          partial \in {<<>>, CleanedHeading(video_title)} :
          IF mk = "raises"
          THEN /\ pc' = "done"
               /\ exit_status' = "unhandled"
               /\ UNCHANGED <<cleaned_result, dirExists, dirCreated, files, effects>>
          ELSE /\ dirExists' = TRUE
               /\ dirCreated' = (dirCreated \/ mk = "created")
               /\ files' = WriteFile(files, CleanedPath(video_id.val, video_title),
                                     CleanedContent(video_title, cleaned_transcript.val),
                                     partial, w)
               /\ cleaned_result' = SaveResult(CleanedPath(video_id.val, video_title), w)
               /\ effects' = Append(effects, "cleaned_write")
               /\ pc' = "done"
               /\ exit_status' = "zero"
    /\ UNCHANGED <<url, video_id, video_title, transcript, raw_transcript_lines,
                   raw_transcript_text, cleaned_transcript, raw_result>>

Next ==
    \/ ParseUrl
    \/ GetVideoTitle
    \/ GetTranscript
    \/ FormatTranscript
    \/ SaveRawTranscript
    \/ CleanTranscript
    \/ SaveCleanedTranscript

Spec == Init /\ [][Next]_vars

(***************************************************************************)
(* extract_video_id on its own: the run stops after the parse step, for a  *)
(* wide set of URLs of the two documented forms.                           *)
(***************************************************************************)
WatchMarker == <<"/", "w", "a", "t", "c", "h", "?", "v", "=">>
ShortMarker == <<"/", "y", "o", "u", "t", "u", ".", "b", "e", "/">>
IdA == <<"d", "Q", "w", "4", "w", "9", "W", "g", "X", "c", "Q">>
IdB == <<"a", "_", "B", "-", "c", "0", "D", "1", "e", "2", "f">>
TokScheme == <<"h", "t", "t", "p", "s", ":", "/", "/">>
TokWww == <<"w", "w", "w", ".">>
TokYoutube == <<"y", "o", "u", "t", "u", "b", "e", ".", "c", "o", "m">>
TokNoCookie == <<"y", "o", "u", "t", "u", "b", "e", "-", "n", "o", "c", "o", "o", "k", "i", "e", ".", "c", "o", "m">>
TokRedirect == <<"/", "r", "e", "d", "i", "r", "e", "c", "t", "?", "v", "=", "A", "A", "A", "A", "A", "A", "A", "A", "A", "A", "A", "&", "u", "=">>

PrefixTokens == {TokScheme, TokWww, TokYoutube, TokNoCookie, TokRedirect}

Prefixes == {Concat(parts) : parts \in SeqsUpTo(PrefixTokens, MaxPrefixParts)}

ParseURLs ==
    {p \o m \o x : p \in Prefixes, m \in {WatchMarker, ShortMarker}, x \in {IdA, IdB}}

InitParse ==
    /\ pc = "parse"
    /\ url \in ParseURLs
    /\ video_id = None
    /\ video_title = None
    /\ transcript = None
    /\ raw_transcript_lines = <<>>
    /\ raw_transcript_text = <<>>
    /\ cleaned_transcript = None
    /\ raw_result = None
    /\ cleaned_result = None
    /\ dirExists = FALSE
    /\ dirCreated = FALSE
    /\ files = {}
    /\ effects = <<>>
    /\ exit_status = "running"

NextParse == ParseUrl

SpecParse == InitParse /\ [][NextParse]_vars

(***************************************************************************)
(* The formatting loop on its own: main has a one-entry transcript whose   *)
(* start offset ranges over seconds, minutes, hours and days.              *)
(***************************************************************************)
FormatStarts ==
    {((d * SecondsPerDay + h * 3600 + m * 60 + sec) * 10) + f :
        d \in 0..MaxDays, h \in {0, 1, 23}, m \in {0, 1, 59},
        sec \in {0, 5, 59}, f \in {0, 9}}

InitFormat ==
    /\ pc = "format"
    /\ url = UrlWatch
    /\ video_id = Some(IdA)
    /\ video_title = None
    /\ transcript \in {Some(<<[start |-> t, text |-> TextHello]>>) : t \in FormatStarts}
    /\ raw_transcript_lines = <<>>
    /\ raw_transcript_text = <<>>
    /\ cleaned_transcript = None
    /\ raw_result = None
    /\ cleaned_result = None
    /\ dirExists = FALSE
    /\ dirCreated = FALSE
    /\ files = {}
    /\ effects = <<"title_lookup", "transcript_lookup">>
    /\ exit_status = "running"

NextFormat == FormatTranscript

SpecFormat == InitFormat /\ [][NextFormat]_vars

(***************************************************************************)
(* Properties.                                                             *)
(***************************************************************************)
Happened(e) == \E i \in 1..Len(effects) : effects[i] = e

Times(e) == Cardinality({i \in 1..Len(effects) : effects[i] = e})

IsPrefixOf(a, b) == Len(a) <= Len(b) /\ SubSeq(b, 1, Len(a)) = a

\* A complete file with this path exists.
SavedAt(path) == \E f \in files : f.path = path /\ f.complete

\* C1: when extract_video_id finds no identifier the run ends at once with
\* exit zero: no network call, no directory and no file.
C1_NoMatchNoEffects ==
    (pc # "parse" /\ video_id = None) =>
        /\ pc = "done"
        /\ exit_status = "zero"
        /\ effects = <<>>
        /\ ~dirCreated
        /\ files = {}

C1_Witness == pc = "done" /\ url = NotAUrl /\ video_id = None /\ effects = <<>>

\* C2: when the transcript lookup yields nothing (None, or an empty list),
\* whatever the title lookup gave, the run ends right after the two lookups
\* with no directory, no file and no cleaning call.
C2_NoTranscriptNoOutput ==
    (Happened("transcript_lookup") /\ ~Truthy(transcript)) =>
        /\ pc = "done"
        /\ exit_status = "zero"
        /\ effects = <<"title_lookup", "transcript_lookup">>
        /\ ~dirCreated
        /\ files = {}
        /\ cleaned_transcript = None

C2_Witness ==
    /\ pc = "done"
    /\ transcript = None
    /\ Truthy(video_title)
    /\ effects = <<"title_lookup", "transcript_lookup">>

\* The run got a transcript, called the rewrite service and got nothing.
RewriteFailed ==
    /\ pc = "done"
    /\ Truthy(transcript)
    /\ Happened("rewrite_request")
    /\ ~Truthy(cleaned_transcript)

\* C3 as stated: after a failed rewrite call the raw file is saved, no
\* cleaned file exists and the rewrite call was made once.
C3_Original ==
    RewriteFailed =>
        /\ SavedAt(RawPath(video_id.val, video_title))
        /\ ~(\E f \in files : f.path = CleanedPath(video_id.val, video_title))
        /\ Times("rewrite_request") = 1

\* C3 amended: after a failed rewrite call the raw-file write has been
\* attempted once, before the call, and the raw file is saved unless that
\* write itself failed; no cleaned file exists, no cleaned write was
\* attempted, and the rewrite call was made once.
C3_RewriteFailureKeepsRaw ==
    RewriteFailed =>
        /\ Times("raw_write") = 1
        /\ raw_result = None \/ SavedAt(RawPath(video_id.val, video_title))
        /\ raw_result # None => raw_result = Some(RawPath(video_id.val, video_title))
        /\ ~(\E f \in files : f.path = CleanedPath(video_id.val, video_title))
        /\ ~Happened("cleaned_write")
        /\ Times("rewrite_request") = 1
        /\ exit_status = "zero"

C3_Witness ==
    /\ RewriteFailed
    /\ video_title = Some(TitleExample)
    /\ SavedAt(RawPath(video_id.val, video_title))
    /\ cleaned_transcript = None

\* C4: in every finished run with a transcript the raw-file write was
\* attempted, and when the rewrite call also returned text the cleaned-file
\* write was attempted, whatever happened to the other file's save.
C4_WritesIndependent ==
    (pc = "done" /\ Truthy(transcript)) =>
        /\ Happened("raw_write")
        /\ Truthy(cleaned_transcript) => Happened("cleaned_write")

\* C5: no failure leaves main as an unhandled exception; every run that
\* ends, ends with exit zero.
C5_NoUnhandledFault == pc = "done" => exit_status = "zero"

\* The title lookup failed, the transcript lookup succeeded and the call
\* of save_raw_transcript is over.
TitleFailedTranscriptOk ==
    /\ pc \in {"clean", "save_cleaned", "done"}
    /\ Happened("title_lookup")
    /\ video_title = None
    /\ Truthy(transcript)

IdRawPath == TranscriptsDir \o <<"/">> \o video_id.val \o RawSuffix

UnknownRawHeadingLine ==
    <<"#", " ", "U", "n", "k", "n", "o", "w", "n", " ", "T", "i", "t", "l", "e",
      " ", "(", "R", "a", "w", " ", "T", "r", "a", "n", "s", "c", "r", "i", "p",
      "t", ")", "\n">>

RawFileUnknownTitle ==
    \E f \in files : /\ f.path = IdRawPath
                     /\ f.complete
                     /\ IsPrefixOf(UnknownRawHeadingLine, f.content)

\* C6 as stated: without a title but with a transcript the raw file is
\* written, headed "# Unknown Title (Raw Transcript)", at
\* transcripts/{identifier}_raw.md (stated for the runs in which
\* save_raw_transcript returned to main).
C6_Original ==
    (TitleFailedTranscriptOk /\ exit_status # "unhandled") => RawFileUnknownTitle

\* C6 amended: without a title but with a transcript the raw file is
\* written at transcripts/{identifier}_raw.md with the heading
\* "# Unknown Title (Raw Transcript)" unless creating the directory or
\* writing the file failed; no other path is written.
C6_UnknownTitleRawFile ==
    TitleFailedTranscriptOk =>
        /\ \/ exit_status = "unhandled"
           \/ raw_result = None
           \/ raw_result = Some(IdRawPath) /\ RawFileUnknownTitle
        /\ \A f \in files :
              f.path = IdRawPath \/ f.path = TranscriptsDir \o <<"/">> \o video_id.val \o CleanedSuffix
        /\ \A f \in files :
              (f.path = IdRawPath /\ f.content # <<>>) =>
                  IsPrefixOf(SubSeq(UnknownRawHeadingLine, 1, Len(UnknownRawHeadingLine) - 1),
                             f.content)

C6_Witness ==
    /\ TitleFailedTranscriptOk
    /\ raw_result = Some(IdRawPath)
    /\ RawFileUnknownTitle

\* The URL is <prefix> marker X with X eleven identifier characters.
EndsWithMarkerId(u, m) ==
    /\ Len(u) >= Len(m) + IdLen
    /\ SubSeq(u, Len(u) - IdLen - Len(m) + 1, Len(u) - IdLen) = m
    /\ \A k \in (Len(u) - IdLen + 1)..Len(u) : u[k] \in IdChars

IsDocumentedForm(u) ==
    EndsWithMarkerId(u, WatchMarker) \/ EndsWithMarkerId(u, ShortMarker)

LastId(u) == SubSeq(u, Len(u) - IdLen + 1, Len(u))

\* Positions before the final X where eleven identifier characters follow
\* a "/" or a "v=".
EarlierIds(u) ==
    {j \in 2..(Len(u) - IdLen) :
        /\ \A k \in j..(j + IdLen - 1) : u[k] \in IdChars
        /\ \/ u[j - 1] = "/"
           \/ j >= 3 /\ u[j - 2] = "v" /\ u[j - 1] = "="}

\* C7 as stated: for a URL of one of the two forms the result is X,
\* whatever the prefix.
C7_Original ==
    (pc # "parse" /\ IsDocumentedForm(url)) => video_id = Some(LastId(url))

\* C7 amended: for a URL of one of the two forms the result is X provided
\* no "/" or "v=" before X is directly followed by eleven identifier
\* characters; otherwise the result is the eleven characters after the
\* leftmost such place.
C7_ExtractsIdUnlessEarlierMatch ==
    (pc # "parse" /\ IsDocumentedForm(url)) =>
        IF EarlierIds(url) = {}
        THEN video_id = Some(LastId(url))
        ELSE LET j == CHOOSE i \in EarlierIds(url) : \A k \in EarlierIds(url) : i <= k
             IN video_id = Some(SubSeq(url, j, j + IdLen - 1))

C7_Witness ==
    /\ pc # "parse"
    /\ url = TokScheme \o TokWww \o TokYoutube \o WatchMarker \o IdB
    /\ EarlierIds(url) = {}
    /\ video_id = Some(IdB)

\* H:MM:SS as the claim computes it from the whole seconds of an offset.
ClaimedTimestamp(tenths) ==
    LET whole == tenths \div 10
    IN DecStr(whole \div 3600) \o <<":">> \o Pad2((whole \div 60) % 60)
          \o <<":">> \o Pad2(whole % 60)

Formatted ==
    Truthy(transcript) /\ pc \in {"save_raw", "clean", "save_cleaned", "done"}

LineHasClaimedTimestamp(i) ==
    raw_transcript_lines[i] =
        <<"[">> \o ClaimedTimestamp(transcript.val[i].start) \o <<"]", " ">>
            \o transcript.val[i].text

ClaimedBase ==
    IF video_title.some /\ sanitize_filename(video_title.val) # <<>>
    THEN sanitize_filename(video_title.val) ELSE video_id.val

\* The base name with the fallback taken on the title, not on its
\* sanitized form.
TitleOrIdBase ==
    IF video_title.some /\ video_title.val # <<>>
    THEN sanitize_filename(video_title.val) ELSE video_id.val

NamedFrom(base) ==
    /\ raw_result \in {None, Some(TranscriptsDir \o <<"/">> \o base \o RawSuffix)}
    /\ cleaned_result \in {None, Some(TranscriptsDir \o <<"/">> \o base \o CleanedSuffix)}
    /\ \A f \in files :
          \/ f.path = TranscriptsDir \o <<"/">> \o base \o RawSuffix
          \/ f.path = TranscriptsDir \o <<"/">> \o base \o CleanedSuffix

\* C9 as stated: both files are named from sanitize(title) or identifier,
\* which is never empty.
C9_Original == Truthy(transcript) => (NamedFrom(ClaimedBase) /\ ClaimedBase # <<>>)

\* C9 amended: both files are named from one base name, the sanitized
\* title when the title is present and not empty (also when sanitizing
\* leaves nothing, so the base name can be empty) and the identifier when
\* the title is absent or empty.
C9_BaseNameFromTitleOrId == Truthy(transcript) => NamedFrom(TitleOrIdBase)

C9_Witness ==
    /\ pc = "done"
    /\ video_title = Some(TitleMixed)
    /\ raw_result = Some(TranscriptsDir \o <<"/", "a", "b", " ", "c", "_", "r", "a", "w", ".", "m", "d">>)
    /\ cleaned_result = Some(TranscriptsDir \o <<"/", "a", "b", " ", "c", ".", "m", "d">>)
    /\ Cardinality(files) = 2

Rank(e) ==
    CASE e = "title_lookup" -> 1
      [] e = "transcript_lookup" -> 2
      [] e = "raw_write" -> 3
      [] e = "rewrite_request" -> 4
      [] e = "cleaned_write" -> 5

\* C10: the external effects of a run occur at most once each and in the
\* order title lookup, transcript lookup, raw-file write, rewrite request,
\* cleaned-file write; the cleaned-file write only after the rewrite
\* request returned text.
C10_EffectsOnceInOrder ==
    /\ \A i, j \in 1..Len(effects) : i < j => Rank(effects[i]) < Rank(effects[j])
    /\ Happened("cleaned_write") =>
          (Happened("rewrite_request") /\ Truthy(cleaned_transcript))

C10_Witness ==
    effects = <<"title_lookup", "transcript_lookup", "raw_write",
                "rewrite_request", "cleaned_write">>
====
